---- MODULE Spec2Model ----
(***************************************************************************)
(* Model of the market ingestion core of blue-quantum-be:                  *)
(*   - compute_indicators_and_signals_all (market/services/simple_jobs.py) *)
(*     the time-boxed, checkpointed batch runner;                          *)
(*   - update_last_candle_grouped_then_fallback                            *)
(*     (market/services/etl_grouped.py), the grouped fetch with a          *)
(*     per-symbol fallback for one date, its budget and _upsert_prices;    *)
(*   - backfill_range (market/views_internal.py), which drives the fetcher *)
(*     over a range of dates and retries a date that comes back partial.   *)
(* Time is counted in whole ticks; symbols of the runner are opaque        *)
(* identities 1..MaxSymbols; the runner works under one progress key.      *)
(***************************************************************************)
EXTENDS Integers, Sequences, FiniteSets, TLC

\* ------------------------------------------------------------------ bounds
MaxSymbols == 3      \* size of the largest universe the runner resolves
MaxBurst == 2        \* largest PRECALC_BURST tried
MaxRuns == 4         \* invocations resumed on one checkpoint lineage
max_seconds == 1     \* PRECALC_MAX_SECONDS, in ticks
\* the fetcher's environment settings, in whole seconds (the defaults are 5, 0.20, 25, 10)
POLYGON_RPM == 1
INTERNAL_SLEEP == 2
INTERNAL_MAX_SECONDS == 4
INTERNAL_FALLBACK_BR == 2

VARIABLES
    \* ---- compute_indicators_and_signals_all
    progress_file,   \* .cache/precalc_progress_<key>.json
    pc,              \* position of the invocation
    burst,           \* PRECALC_BURST
    symbols,         \* universe resolved by this invocation
    order,           \* frozen order being processed
    idx,             \* cursor
    end,             \* end of the current batch
    pos,             \* symbols of order[1..pos] of the batch are behind the for loop
    processed,
    errors,
    clock,           \* time.perf_counter() - started_at, capped at max_seconds
    result,          \* what the last invocation gave its caller
    \* ---- history of the runner (not program state)
    idx0,            \* cursor with which the invocation entered its loop
    ran,             \* symbols whose subtasks ran since the order was (re)initialised
    runs,            \* invocations since the order was (re)initialised
    total,           \* sum of the processed counts of those invocations
    clean,           \* none of them failed on I/O or left its loop without a symbol
    loaded,          \* how the invocation got its order and cursor
    io_failed,       \* the last write or unlink of the progress file failed
    \* ---- update_last_candle_grouped_then_fallback, one target date
    store,           \* symbols with a PriceDaily row for the date
    fpc,             \* position of the invocation
    uni_orig,        \* sorted universe of the invocation
    got_syms_orig,   \* symbols the grouped stage upserted
    missing_orig,
    fallback_budget,
    fb_i,            \* iterations of the fallback loop behind us
    fallback_attempted,
    fallback_ok,
    http_404,
    http_other,
    processed_in_burst,
    partial,
    elapsed,         \* time.monotonic() - t0, capped at INTERNAL_MAX_SECONDS
    stats,           \* what the last invocation gave its caller
    \* ---- history of the fetcher (not program state)
    written,         \* symbols this invocation upserted
    timed_out,       \* the fallback loop left on the time test
    \* ---- history of the subtasks of the runner's last symbol (not program state)
    called,          \* the subtasks invoked for it, in order
    outcomes,        \* what each of the three subtasks did
    \* ---- backfill_range
    bpc,             \* position of the request
    b_start,         \* start, as a day number
    b_end,           \* end
    b_d,             \* d, the date of the loop
    entry,           \* the entry of the date being built
    out,             \* the audit list
    response,        \* what the last request answered
    \* ---- history of backfill_range (not program state)
    calls,           \* what the fetcher did at each call made for the date b_d
    \* ---- the budget of the fallback stage on its own (etl_grouped.py lines 203-207)
    planner,         \* the settings, the elapsed time and the budget computed from them
    \* ---- what one observed invocation of the fetcher was given (not program state)
    g_kind,          \* what the grouped request did
    g_usable,        \* universe symbols whose vendor spelling had a row with a close
    g_time,          \* time elapsed after the grouped stage
    singles,         \* what the single-symbol request of each turn did, in order
    slow,            \* every turn made so far took longer than INTERNAL_MAX_SECONDS
    \* ---- _upsert_prices and the PriceDaily table
    prices,          \* the row of each (symbol, date), or none
    upserted,        \* what the last call returned
    last_upsert,     \* the arguments of the last call (not program state)
    \* ---- _trading_days_between_exclusive on its own (views_internal.py lines 262-276)
    estimate,        \* start_d, end_d, cap and the count returned for them
    \* ---- the precalc view (views_internal.py lines 387-404)
    http,            \* what the view answered to the last request
    \* ---- the call_backfill_range command (call_backfill_range.py lines 69-191)
    client,          \* position, date, attempt and totals of the command
    \* ---- history of the fetcher's calls and of the runner's sleeps (not program state)
    eod_calls,       \* the cli.eod_bar calls of the invocation, in the order made
    passed,          \* universe_symbols as the caller passed it
    slept            \* the batch just closed was followed by time.sleep(tiny_sleep)

rvars == <<progress_file, pc, burst, symbols, order, idx, end, pos, processed,
           errors, clock, result, idx0, ran, loaded, io_failed>>
avars == <<runs, total, clean>>
fvars == <<store, fpc, uni_orig, got_syms_orig, missing_orig, fallback_budget, fb_i,
           fallback_attempted, fallback_ok, http_404, http_other, processed_in_burst,
           partial, elapsed, stats, written, timed_out>>
svars == <<called, outcomes>>
bvars == <<bpc, b_start, b_end, b_d, entry, out, response, calls>>
hvars == <<g_kind, g_usable, g_time, singles, slow>>
uvars == <<prices, upserted, last_upsert>>
zvars == <<estimate, http, client>>
lvars == <<slept, eod_calls, passed>>
vars == <<rvars, avars, fvars, svars, bvars, planner, hvars, uvars, zvars, lvars>>

\* ------------------------------------------------------------------ helpers
Min(a, b) == IF a < b THEN a ELSE b
Max(a, b) == IF a > b THEN a ELSE b
SetOf(s) == {s[i] : i \in 1..Len(s)}
CeilDiv(a, b) == (a + b - 1) \div b

Asc(k) == [i \in 1..k |-> i]
Desc(k) == [i \in 1..k |-> k + 1 - i]
\* what get_dashboard_universe / the active tickers may hand to the runner:
\* ascending or descending lists of 1..k, possibly with a repeated symbol
RawUniverses ==
    {Asc(k) : k \in 0..MaxSymbols} \cup {Desc(k) : k \in 0..MaxSymbols}
        \cup {Asc(k) \o <<1>> : k \in 1..MaxSymbols}

RECURSIVE dedupe_from(_, _, _)
dedupe_from(seq, i, kept) ==
    IF i > Len(seq) THEN kept
    ELSE dedupe_from(seq, i + 1,
                     IF seq[i] \in SetOf(kept) THEN kept ELSE Append(kept, seq[i]))
dedupe_upper(seq) == dedupe_from(seq, 1, <<>>)

\* ------------------------------------------------------------------ checkpoint file
Absent == [tag |-> "absent"]
Corrupt == [tag |-> "corrupt"]
Saved(i, o) == [tag |-> "saved", idx |-> i, order |-> o]

\* lines 167-181: the order and cursor an invocation starts from
LoadResetsOrderOnly(file, syms, read_ok) ==
    IF file.tag = "saved" /\ read_ok
    THEN LET o == IF file.order = <<>> THEN syms ELSE file.order IN
         [idx |-> file.idx, order |-> IF SetOf(o) # SetOf(syms) THEN syms ELSE o]
    ELSE [idx |-> 0, order |-> syms]
LoadProgress(file, syms, read_ok) ==
    IF file.tag = "saved" /\ read_ok
    THEN LET o == IF file.order = <<>> THEN syms ELSE file.order IN
         IF SetOf(o) # SetOf(syms)
         THEN [idx |-> 0, order |-> syms]
         ELSE [idx |-> file.idx, order |-> o]
    ELSE [idx |-> 0, order |-> syms]

\* the invocation continues a stored checkpoint (neither absent, unreadable nor stale)
Resumes(file, syms, read_ok) ==
    /\ file.tag = "saved"
    /\ read_ok
    /\ SetOf(IF file.order = <<>> THEN syms ELSE file.order) = SetOf(syms)

\* line 190
BatchEnd(i, n, b) == Min(n, i + b)

\* line 238
Partial(i, n) == i < n

\* lines 241-247: the file after the normal exit; a failed write_text may leave the
\* file as it was or truncated, a failed unlink leaves it as it was
SaveOrClear(file, i, o, io_ok, truncated) ==
    IF Partial(i, Len(o))
    THEN IF io_ok THEN Saved(i, o) ELSE IF truncated THEN Corrupt ELSE file
    ELSE IF io_ok THEN Absent ELSE file

NoResult == [kind |-> "none"]
Returned(ok, part, error, proc, errs, remaining) ==
    [kind |-> "returned", ok |-> ok, partial |-> part, error |-> error,
     processed |-> proc, errors |-> errs, remaining |-> remaining]
Raised == [kind |-> "raised"]
Crashed == [kind |-> "crashed"]

\* ------------------------------------------------------------------ runner
RunnerInit ==
    /\ progress_file = Absent
    /\ pc = "idle"
    /\ burst \in 1..MaxBurst
    /\ symbols = <<>>
    /\ order = <<>>
    /\ idx = 0
    /\ end = 0
    /\ pos = 0
    /\ processed = 0
    /\ errors = 0
    /\ clock = 0
    /\ result = NoResult
    /\ idx0 = 0
    /\ ran = {}
    /\ loaded = "none"
    /\ io_failed = FALSE

Forget ==
    /\ symbols' = <<>>
    /\ order' = <<>>
    /\ idx' = 0
    /\ end' = 0
    /\ pos' = 0
    /\ processed' = 0
    /\ errors' = 0
    /\ clock' = 0
    /\ idx0' = 0

\* lines 137-151: an empty universe returns before anything is touched
UniverseEmpty(raw) ==
    /\ pc = "idle"
    /\ dedupe_upper(raw) = <<>>
    /\ result' = Returned(FALSE, TRUE, "universe_empty", 0, 0, 0)
    /\ pc' = "done"
    /\ UNCHANGED <<progress_file, burst, symbols, order, idx, end, pos,
                   processed, errors, clock, idx0, ran, loaded, io_failed>>

\* lines 162-163: cache_dir.mkdir is outside every try
MkdirFails(raw) ==
    /\ pc = "idle"
    /\ dedupe_upper(raw) # <<>>
    /\ result' = Raised
    /\ pc' = "done"
    /\ UNCHANGED <<progress_file, burst, symbols, order, idx, end, pos,
                   processed, errors, clock, idx0, ran, loaded, io_failed>>

\* lines 137-185: resolve the universe, load or create the progress, enter the loop
Start(raw, read_ok, d) ==
    /\ pc = "idle"
    /\ dedupe_upper(raw) # <<>>
    /\ LET syms == dedupe_upper(raw)
           ld == LoadProgress(progress_file, syms, read_ok)
           resumes == Resumes(progress_file, syms, read_ok)
       IN /\ symbols' = syms
          /\ order' = ld.order
          /\ idx' = ld.idx
          /\ idx0' = ld.idx
          /\ loaded' = IF resumes THEN "resumed"
                       ELSE IF progress_file.tag = "absent" THEN "fresh"
                       ELSE IF progress_file.tag = "saved" /\ read_ok THEN "reset"
                       ELSE "unreadable"
          /\ ran' = IF resumes THEN ran ELSE {}
    /\ processed' = 0
    /\ errors' = 0
    /\ end' = 0
    /\ pos' = 0
    /\ clock' = d
    /\ result' = NoResult
    /\ pc' = "while"
    /\ UNCHANGED <<progress_file, burst, io_failed>>

\* line 189: the while test; lines 190-191 open the batch
WhileTest ==
    /\ pc = "while"
    /\ IF clock < max_seconds /\ idx < Len(order)
       THEN /\ end' = BatchEnd(idx, Len(order), burst)
            /\ pos' = idx
            /\ pc' = "for"
       ELSE /\ pc' = "save"
            /\ UNCHANGED <<end, pos>>
    /\ UNCHANGED <<progress_file, burst, symbols, order, idx, processed, errors,
                   clock, result, idx0, ran, loaded, io_failed>>

\* lines 192-207: one symbol of the batch, its three subtasks; fails of them raise
ProcessSymbol(fails, d) ==
    /\ pc = "for"
    /\ pos < end
    /\ clock < max_seconds
    /\ errors' = errors + fails
    /\ processed' = processed + 1
    /\ pos' = pos + 1
    /\ ran' = ran \cup {order[pos + 1]}
    /\ clock' = Min(max_seconds, clock + d)
    /\ UNCHANGED <<progress_file, pc, burst, symbols, order, idx, end, result,
                   idx0, loaded, io_failed>>

\* lines 192-194 and 208-210: the for loop ends (batch exhausted, or the time is up
\* before a symbol), the cursor moves to the end of the batch, sleep if more remain
EndBatch(d) ==
    /\ pc = "for"
    /\ pos = end \/ clock >= max_seconds
    /\ idx' = end
    /\ clock' = IF end < Len(order) THEN Min(max_seconds, clock + d) ELSE clock
    /\ pc' = "while"
    /\ UNCHANGED <<progress_file, burst, symbols, order, end, pos, processed,
                   errors, result, idx0, ran, loaded, io_failed>>

\* lines 211-235: an exception of the loop itself; best-effort write, ok=false
LoopFails(io_ok, truncated) ==
    /\ pc \in {"while", "for"}
    /\ progress_file' = IF io_ok THEN Saved(idx, order)
                        ELSE IF truncated THEN Corrupt ELSE progress_file
    /\ result' = Returned(FALSE, TRUE, "exception", processed, errors,
                          Max(0, Len(order) - idx))
    /\ io_failed' = ~io_ok
    /\ pc' = "done"
    /\ UNCHANGED <<burst, symbols, order, idx, end, pos, processed, errors, clock,
                   idx0, ran, loaded>>

\* lines 237-264: the normal exit
Finish(io_ok, truncated) ==
    /\ pc = "save"
    /\ progress_file' = SaveOrClear(progress_file, idx, order, io_ok, truncated)
    /\ result' = Returned(TRUE, Partial(idx, Len(order)), "", processed, errors,
                          Max(0, Len(order) - idx))
    /\ io_failed' = ~io_ok
    /\ pc' = "done"
    /\ UNCHANGED <<burst, symbols, order, idx, end, pos, processed, errors, clock,
                   idx0, ran, loaded>>

\* the process dies inside an invocation; dying inside write_text may truncate the file
Crash(truncated) ==
    /\ pc \in {"while", "for", "save"}
    /\ progress_file' = IF pc = "save" /\ truncated /\ Partial(idx, Len(order))
                        THEN Corrupt ELSE progress_file
    /\ result' = Crashed
    /\ pc' = "done"
    /\ UNCHANGED <<burst, symbols, order, idx, end, pos, processed, errors, clock,
                   idx0, ran, loaded, io_failed>>

\* the caller has the result (or the exception, or the process is gone); the locals
\* of the invocation are gone
RunnerCollect ==
    /\ pc = "done"
    /\ pc' = "idle"
    /\ result' = NoResult
    /\ loaded' = "none"
    /\ io_failed' = FALSE
    /\ Forget
    /\ UNCHANGED <<progress_file, burst, ran>>

\* ------------------------------------------------------------------ resumed runs
\* Repeated invocations under one key with the universe 1..k, a burst below k, a
\* working file system and no crash; runs, total and clean account for them.
Starting == pc = "idle" /\ pc' = "while"
Ending == pc \in {"while", "for", "save"} /\ pc' = "done"
\* the first while test of an invocation already fails on time
LeavesWithoutBatch == pc = "while" /\ pc' = "save" /\ end = 0 /\ idx < Len(order)

ResumeAccount ==
    /\ runs' = IF Starting THEN (IF loaded' = "resumed" THEN runs + 1 ELSE 1) ELSE runs
    /\ total' = IF Starting /\ loaded' # "resumed" THEN 0
                ELSE IF Ending THEN total + processed ELSE total
    /\ clean' = IF Starting /\ loaded' # "resumed" THEN TRUE
                ELSE IF LeavesWithoutBatch THEN FALSE ELSE clean

ResumeStart(k, d) ==
    /\ burst < k
    /\ \/ progress_file = Absent
       \/ /\ progress_file.tag = "saved"
          /\ SetOf(progress_file.order) = 1..k
          /\ runs < MaxRuns
    /\ Start(Asc(k), TRUE, d)

Resumed(A) == A /\ ResumeAccount /\ UNCHANGED fvars /\ UNCHANGED <<svars, bvars, planner, hvars, uvars, zvars, lvars>>

ResumeNext ==
    \/ \E k \in 2..MaxSymbols, d \in 0..max_seconds : Resumed(ResumeStart(k, d))
    \/ Resumed(WhileTest)
    \/ \E fails \in 0..3, d \in 0..max_seconds : Resumed(ProcessSymbol(fails, d))
    \/ \E d \in 0..max_seconds : Resumed(EndBatch(d))
    \/ Resumed(Finish(TRUE, FALSE))
    \/ Resumed(RunnerCollect)

\* ------------------------------------------------------------------ subtasks
\* lines 195-206: the three subtasks of one symbol, each inside its own try
SUBTASKS == <<"daily", "weekly", "signal">>
SubtaskOutcomes == {"ok", "raises"}

\* the calls made and the errors counted when the subtasks do what outs says
RECURSIVE RunSubtasksStopAtFirst(_, _, _)
RunSubtasksStopAtFirst(outs, i, acc) ==
    IF i > Len(SUBTASKS) THEN acc
    ELSE LET now == [calls |-> Append(acc.calls, SUBTASKS[i]),
                     errors |-> acc.errors + (IF outs[i] = "raises" THEN 1 ELSE 0)]
         IN IF outs[i] = "raises" THEN now ELSE RunSubtasksStopAtFirst(outs, i + 1, now)
RECURSIVE RunSubtasks(_, _, _)
RunSubtasks(outs, i, acc) ==
    IF i > Len(SUBTASKS) THEN acc
    ELSE RunSubtasks(outs, i + 1,
                     [calls |-> Append(acc.calls, SUBTASKS[i]),
                      errors |-> acc.errors + (IF outs[i] = "raises" THEN 1 ELSE 0)])

\* lines 192-207 with the subtasks told apart
ProcessSubtasks(outs, d) ==
    LET r == RunSubtasks(outs, 1, [calls |-> <<>>, errors |-> 0])
    IN /\ ProcessSymbol(r.errors, d)
       /\ called' = r.calls
       /\ outcomes' = outs

\* the runner on a working file system, the subtasks of every symbol told apart
Subtasked(A) == A /\ UNCHANGED avars /\ UNCHANGED fvars /\ UNCHANGED <<bvars, planner, hvars, uvars, zvars, lvars>>

SubtaskNext ==
    \/ \E k \in 1..MaxSymbols, d \in 0..max_seconds :
          Subtasked(Start(Asc(k), TRUE, d) /\ UNCHANGED svars)
    \/ Subtasked(WhileTest /\ UNCHANGED svars)
    \/ \E outs \in [1..3 -> SubtaskOutcomes], d \in 0..max_seconds :
          Subtasked(ProcessSubtasks(outs, d))
    \/ \E d \in 0..max_seconds : Subtasked(EndBatch(d) /\ UNCHANGED svars)
    \/ Subtasked(Finish(TRUE, FALSE) /\ UNCHANGED svars)
    \/ Subtasked(RunnerCollect /\ called' = <<>> /\ outcomes' = <<>>)

\* ------------------------------------------------------------------ fetcher
\* the symbols a universe is drawn from, as Python sorts them, and what the vendor knows
AllSymbols == <<"AAPL", "BRK", "BRK.B">>
\* the universe symbols the grouped response may carry a row for
GroupedSymbols == {"AAPL", "BRK.B"}
NoSymbol == ""

\* lines 27-39: CLASS_MAP
normalize_for_polygon(sym) ==
    IF sym = "BRK" THEN "BRK.B"
    ELSE IF sym = "BF" THEN "BF.B"
    ELSE sym

\* lines 41-48: .B <-> .A, none otherwise
alt_class_symbol(sym_norm) ==
    IF sym_norm = "BRK.B" THEN "BRK.A"
    ELSE IF sym_norm = "BRK.A" THEN "BRK.B"
    ELSE IF sym_norm = "BF.B" THEN "BF.A"
    ELSE IF sym_norm = "BF.A" THEN "BF.B"
    ELSE NoSymbol

\* line 145
SortedUniverse(U) == SelectSeq(AllSymbols, LAMBDA s : s \in U)

\* lines 150-152: the first original of each normalized spelling
norm_to_orig(uni, n) ==
    LET at == {i \in 1..Len(uni) : normalize_for_polygon(uni[i]) = n}
    IN uni[CHOOSE i \in at : \A j \in at : i <= j]

\* lines 159-169: the originals of the grouped rows kept for upsert
GroupedRowsIgnored(uni, g, rows) == {}
grouped_rows_raw(uni, g, rows) ==
    IF g # "rows" THEN {}
    ELSE {norm_to_orig(uni, v) :
             v \in {w \in {normalize_for_polygon(uni[i]) : i \in 1..Len(uni)} :
                       rows[w] = "bar"}}

\* lines 204-207
BudgetIgnoresTime(br, rpm, max_s, sleep, el) == Max(0, Min(br, rpm * max_s))
FallbackBudget(br, rpm, max_s, sleep, el) ==
    LET time_left == Max(0, max_s - el)
        by_rpm == rpm * max_s
        by_sleep == IF sleep >= 1 THEN time_left \div sleep ELSE time_left * 20
    IN Max(0, Min(br, Min(by_rpm, by_sleep)))

\* line 255
missing_after(n_uni, n_got, n_ok) == Max(0, n_uni - n_got - n_ok)

\* line 268
FinalPartialIgnoresMissing(p, m) == p
FinalPartial(p, m) == p \/ m > 0

\* lines 223-229: the alternate spelling is asked for after a 404, when there is one
TriesAltAfterForbidden(p, alt) == p \in {"notfound", "forbidden"} /\ alt # NoSymbol
TriesAlt(p, alt) == p = "notfound" /\ alt # NoSymbol

\* lines 248-251
BurstSpentEarly(done, budget) == done >= budget - 1
BurstSpent(done, budget) == done >= budget

Stats(n_uni, n_grouped, attempted, ok, n404, other, m_after, part) ==
    [kind |-> "returned", universe |-> n_uni, grouped_upserted |-> n_grouped,
     fallback_attempted |-> attempted, fallback_ok |-> ok, http_404 |-> n404,
     http_other |-> other, missing_after |-> m_after, partial |-> part]

\* cli.grouped_daily_stocks: 403, another failure, or rows; a row has a close or none
RowStates == {"absent", "null", "bar"}
GroupedOutcomes == {<<"forbidden", <<>>>>, <<"error", <<>>>>}
                      \cup {<<"rows", rows>> : rows \in [GroupedSymbols -> RowStates]}
\* cli.eod_bar: a bar, nothing, 403, 404, another HTTP status, an error that is no HTTPError
SingleOutcomes == {"bar", "empty", "forbidden", "notfound", "http_other", "error"}
AltOutcomes == {"bar", "empty", "error"}

FetcherInit ==
    /\ store = {}
    /\ fpc = "idle"
    /\ uni_orig = <<>>
    /\ got_syms_orig = {}
    /\ missing_orig = <<>>
    /\ fallback_budget = 0
    /\ fb_i = 0
    /\ fallback_attempted = 0
    /\ fallback_ok = 0
    /\ http_404 = 0
    /\ http_other = 0
    /\ processed_in_burst = 0
    /\ partial = FALSE
    /\ elapsed = 0
    /\ stats = NoResult
    /\ written = {}
    /\ timed_out = FALSE

\* the locals of the fallback stage
FallbackLocals(budget, i, attempted, ok, n404, other, done, part) ==
    /\ fallback_budget' = budget
    /\ fb_i' = i
    /\ fallback_attempted' = attempted
    /\ fallback_ok' = ok
    /\ http_404' = n404
    /\ http_other' = other
    /\ processed_in_burst' = done
    /\ partial' = part

\* lines 142-207: the grouped stage, with the early return of lines 177-191
Grouped(U, g, rows, d) ==
    /\ fpc = "idle"
    /\ LET uni == SortedUniverse(U)
           got == grouped_rows_raw(uni, g, rows)
           missing == SelectSeq(uni, LAMBDA s : s \notin got)
       IN /\ uni_orig' = uni
          /\ timed_out' = FALSE
          /\ IF g = "error"
             THEN \* only PermissionError is caught at line 167
                  /\ stats' = Raised
                  /\ fpc' = "done"
                  /\ got_syms_orig' = {}
                  /\ missing_orig' = <<>>
                  /\ written' = {}
                  /\ elapsed' = 0
                  /\ FallbackLocals(0, 0, 0, 0, 0, 0, 0, FALSE)
                  /\ UNCHANGED store
             ELSE /\ store' = store \cup got
                  /\ written' = got
                  /\ got_syms_orig' = got
                  /\ missing_orig' = missing
                  /\ elapsed' = d
                  /\ IF d >= INTERNAL_MAX_SECONDS \/ missing = <<>>
                     THEN /\ stats' = Stats(Len(uni), Cardinality(got), 0, 0, 0, 0,
                                            Max(0, Len(uni) - Cardinality(got)),
                                            Len(missing) > 0)
                          /\ fpc' = "done"
                          /\ FallbackLocals(0, 0, 0, 0, 0, 0, 0, FALSE)
                     ELSE /\ stats' = NoResult
                          /\ fpc' = "loop"
                          /\ FallbackLocals(
                                FallbackBudget(INTERNAL_FALLBACK_BR, POLYGON_RPM,
                                               INTERNAL_MAX_SECONDS, INTERNAL_SLEEP, d),
                                0, 0, 0, 0, 0, 0, FALSE)

\* lines 209-251: one turn of the fallback loop. p is what cli.eod_bar gives for the
\* normalized symbol, a what it gives for the alternate class spelling, d the time the
\* calls and the sleep of the turn take
Fallback(p, a, d) ==
    /\ fpc = "loop"
    /\ fb_i < Min(fallback_budget, Len(missing_orig))
    /\ IF elapsed >= INTERNAL_MAX_SECONDS
       THEN /\ partial' = TRUE
            /\ timed_out' = TRUE
            /\ fpc' = "return"
            /\ UNCHANGED <<store, written, fb_i, fallback_attempted, fallback_ok,
                           http_404, http_other, processed_in_burst, elapsed, stats>>
       ELSE LET sym_orig == missing_orig[fb_i + 1]
                sym_norm == normalize_for_polygon(sym_orig)
                alt == alt_class_symbol(sym_norm)
                tries_alt == TriesAlt(p, alt)
                one == p = "bar" \/ (tries_alt /\ a = "bar")
            IN /\ fallback_attempted' = fallback_attempted + (IF tries_alt THEN 2 ELSE 1)
               /\ fallback_ok' = fallback_ok + (IF one THEN 1 ELSE 0)
               /\ store' = IF one THEN store \cup {sym_orig} ELSE store
               /\ written' = IF one THEN written \cup {sym_orig} ELSE written
               /\ http_404' = http_404 + (IF p = "notfound" THEN 1 ELSE 0)
               /\ http_other' = http_other + (IF p = "http_other" THEN 1 ELSE 0)
               /\ processed_in_burst' = processed_in_burst + 1
               /\ elapsed' = Min(INTERNAL_MAX_SECONDS, elapsed + d)
               /\ fb_i' = fb_i + 1
               /\ IF p = "error"
                  THEN \* neither PermissionError nor requests.HTTPError: after the
                       \* finally block it leaves the function
                       /\ stats' = Raised
                       /\ fpc' = "done"
                       /\ UNCHANGED <<partial, timed_out>>
                  ELSE IF BurstSpent(processed_in_burst + 1, fallback_budget)
                  THEN /\ partial' = TRUE
                       /\ fpc' = "return"
                       /\ UNCHANGED <<stats, timed_out>>
                  ELSE /\ fpc' = IF fb_i + 1 < Min(fallback_budget, Len(missing_orig))
                                 THEN "loop" ELSE "return"
                       /\ UNCHANGED <<stats, partial, timed_out>>
    /\ UNCHANGED <<uni_orig, got_syms_orig, missing_orig, fallback_budget>>

\* missing_orig[:0] is empty: the loop body never runs
NoFallback ==
    /\ fpc = "loop"
    /\ Min(fallback_budget, Len(missing_orig)) = 0
    /\ fpc' = "return"
    /\ UNCHANGED <<store, uni_orig, got_syms_orig, missing_orig, fallback_budget, fb_i,
                   fallback_attempted, fallback_ok, http_404, http_other,
                   processed_in_burst, partial, elapsed, stats, written, timed_out>>

\* lines 253-269
Return ==
    /\ fpc = "return"
    /\ LET m == missing_after(Len(uni_orig), Cardinality(got_syms_orig), fallback_ok)
       IN stats' = Stats(Len(uni_orig), Cardinality(got_syms_orig), fallback_attempted,
                         fallback_ok, http_404, http_other, m, FinalPartial(partial, m))
    /\ fpc' = "done"
    /\ UNCHANGED <<store, uni_orig, got_syms_orig, missing_orig, fallback_budget, fb_i,
                   fallback_attempted, fallback_ok, http_404, http_other,
                   processed_in_burst, partial, elapsed, written, timed_out>>

\* the caller has the result (or the exception); the locals of the invocation are
\* gone, and the caller may come back with the same universe or with any
Collect(same_universe) ==
    /\ fpc = "done"
    /\ fpc' = "idle"
    /\ stats' = NoResult
    /\ got_syms_orig' = {}
    /\ missing_orig' = <<>>
    /\ elapsed' = 0
    /\ written' = {}
    /\ timed_out' = FALSE
    /\ FallbackLocals(0, 0, 0, 0, 0, 0, 0, FALSE)
    /\ uni_orig' = IF same_universe THEN uni_orig ELSE <<>>
    /\ UNCHANGED store

\* ------------------------------------------------------------------ one observed invocation
\* One invocation of the fetcher with what the vendor did kept beside it. A turn of the
\* fallback loop may take longer than the whole time budget.
ObservedInit ==
    /\ g_kind = "none"
    /\ g_usable = {}
    /\ g_time = 0
    /\ singles = <<>>
    /\ slow = TRUE

ObservedGrouped(U, g, rows, d) ==
    /\ Grouped(U, g, rows, d)
    /\ g_kind' = g
    /\ g_usable' = IF g = "rows"
                   THEN {sym \in U : rows[normalize_for_polygon(sym)] = "bar"}
                   ELSE {}
    /\ g_time' = d
    /\ singles' = <<>>
    /\ slow' = TRUE

ObservedFallback(p, a, d) ==
    /\ Fallback(p, a, d)
    /\ IF elapsed < INTERNAL_MAX_SECONDS
       THEN /\ singles' = Append(singles, p)
            /\ slow' = (slow /\ d > INTERNAL_MAX_SECONDS)
       ELSE UNCHANGED <<singles, slow>>
    /\ UNCHANGED <<g_kind, g_usable, g_time>>

Observed(A) == A /\ UNCHANGED <<rvars, avars, svars, bvars, planner, uvars, zvars, lvars>>

ObservedNext ==
    \/ \E U \in SUBSET SetOf(AllSymbols), g \in GroupedOutcomes,
          d \in 0..INTERNAL_MAX_SECONDS : Observed(ObservedGrouped(U, g[1], g[2], d))
    \/ \E p \in SingleOutcomes, a \in AltOutcomes, d \in 0..(INTERNAL_MAX_SECONDS + 1) :
          Observed(ObservedFallback(p, a, d))
    \/ Observed(NoFallback /\ UNCHANGED hvars)
    \/ Observed(Return /\ UNCHANGED hvars)

\* ------------------------------------------------------------------ the calls of one invocation
\* The observed invocation with every cli.eod_bar call kept: the spelling sent, the
\* universe symbol it is for, whether it is the alternate spelling, the elapsed time
\* when it starts and what the vendor answers. seq is universe_symbols as passed; d1 is
\* the part of the turn's time that the first call takes, the sleep of the turn being
\* the last INTERNAL_SLEEP of it.
CallerSequences ==
    UNION {{seq \in [1..n -> SetOf(AllSymbols)] :
               \A i, j \in 1..n : i # j => seq[i] # seq[j]} : n \in 0..Len(AllSymbols)}

EodCall(sym, orig, alt, at, outcome) ==
    [symbol |-> sym, orig |-> orig, alt |-> alt, at |-> at, outcome |-> outcome]

LoggedGrouped(seq, g, rows, d) ==
    /\ ObservedGrouped(SetOf(seq), g, rows, d)
    /\ passed' = seq
    /\ eod_calls' = <<>>

\* a turn takes the sleep alone, or the whole time budget
TurnTimes == {INTERNAL_SLEEP, INTERNAL_MAX_SECONDS}

\* the turn would make the second call
AsksAlt(p) ==
    /\ fpc = "loop"
    /\ fb_i < Min(fallback_budget, Len(missing_orig))
    /\ elapsed < INTERNAL_MAX_SECONDS
    /\ TriesAlt(p, alt_class_symbol(normalize_for_polygon(missing_orig[fb_i + 1])))

LoggedFallback(p, a, d, d1) ==
    /\ ObservedFallback(p, a, d)
    /\ IF elapsed < INTERNAL_MAX_SECONDS
       THEN LET sym_orig == missing_orig[fb_i + 1]
                sym_norm == normalize_for_polygon(sym_orig)
                alt == alt_class_symbol(sym_norm)
                first == EodCall(sym_norm, sym_orig, FALSE, elapsed, p)
                second == EodCall(alt, sym_orig, TRUE,
                                  Min(INTERNAL_MAX_SECONDS, elapsed + d1), a)
            IN IF TriesAlt(p, alt)
               THEN eod_calls' = eod_calls \o <<first, second>>
               ELSE eod_calls' = Append(eod_calls, first)
       ELSE UNCHANGED eod_calls
    /\ UNCHANGED passed

Logged(A) == A /\ UNCHANGED <<rvars, avars, svars, bvars, planner, uvars, zvars, slept>>

LoggedNext ==
    \/ \E seq \in CallerSequences, g \in GroupedOutcomes, d \in 0..INTERNAL_MAX_SECONDS :
          Logged(LoggedGrouped(seq, g[1], g[2], d))
    \/ \E p \in SingleOutcomes, d \in TurnTimes :
          \E a \in IF AsksAlt(p) THEN AltOutcomes ELSE {"empty"},
             d1 \in IF AsksAlt(p) THEN {0, d - INTERNAL_SLEEP} ELSE {0} :
             Logged(LoggedFallback(p, a, d, d1))
    \/ Logged(NoFallback /\ UNCHANGED <<hvars, eod_calls, passed>>)
    \/ Logged(Return /\ UNCHANGED <<hvars, eod_calls, passed>>)

\* ------------------------------------------------------------------ _upsert_prices
\* etl_grouped.py lines 91-125 on the PriceDaily table (models.py lines 12-31), whose
\* unique key is (ticker, date). Callers pass symbols already upper-cased and
\* stripped, so _ensure_tickers finds or creates the ticker of every row.
MaxPrice == 2            \* the values a field of a bar takes
MaxRows == 2             \* rows of one call
UpsertDays == 2          \* dates of the table
UpsertSymbols == {"AAPL", "BRK"}

NoBar == [open |-> 0, high |-> 0, low |-> 0, close |-> 0, adj_close |-> 0, volume |-> 0]
Bar(v) == [open |-> v, high |-> v, low |-> v, close |-> v, adj_close |-> v, volume |-> v]
PriceKeys == UpsertSymbols \X (1..UpsertDays)
\* rows as _coerce_row_for_upsert hands them over
UpsertRows == [symbol : UpsertSymbols, bar : {Bar(v) : v \in 1..MaxPrice}]
RowLists == UNION {[1..n -> UpsertRows] : n \in 0..MaxRows}

\* lines 116-123: INSERT ... ON CONFLICT (ticker, date) DO UPDATE of the six fields
ApplyRowKeepsVolume(table, date, row) ==
    LET old == table[<<row.symbol, date>>]
    IN [table EXCEPT ![<<row.symbol, date>>] =
           IF old = NoBar THEN row.bar ELSE [row.bar EXCEPT !.volume = old.volume]]
ApplyRow(table, date, row) ==
    [table EXCEPT ![<<row.symbol, date>>] = row.bar]

RECURSIVE ApplyRows(_, _, _, _)
ApplyRows(table, date, rows, i) ==
    IF i > Len(rows) THEN table
    ELSE ApplyRows(ApplyRow(table, date, rows[i]), date, rows, i + 1)

\* lines 91-125: the table after a call that returns
UpsertPrices(table, date, rows) == ApplyRows(table, date, rows, 1)

\* two rows of one call with the same key
HasDuplicateKey(rows) ==
    \E i, j \in 1..Len(rows) : i < j /\ rows[i].symbol = rows[j].symbol

UpsertInit ==
    /\ prices = [k \in PriceKeys |-> NoBar]
    /\ upserted = NoResult
    /\ last_upsert = [date |-> 0, rows |-> <<>>]

\* one call. A statement that carries one key twice is refused by PostgreSQL (the
\* exception leaves the function and transaction.atomic undoes the statement) and
\* applied row by row by SQLite: dup_fails chooses.
Upsert(date, rows, dup_fails) ==
    /\ last_upsert' = [date |-> date, rows |-> rows]
    /\ IF HasDuplicateKey(rows) /\ dup_fails
       THEN /\ upserted' = Raised
            /\ UNCHANGED prices
       ELSE /\ upserted' = [kind |-> "returned", count |-> Len(rows)]
            /\ prices' = UpsertPrices(prices, date, rows)
    /\ UNCHANGED <<rvars, avars, fvars, svars, bvars, planner, hvars, zvars, lvars>>

UpsertNext ==
    \E date \in 1..UpsertDays, rows \in RowLists, dup_fails \in BOOLEAN :
        Upsert(date, rows, dup_fails)

\* ------------------------------------------------------------------ backfill_range
\* views_internal.py lines 470-516. Dates are day numbers 1..MaxDays; the fetcher is
\* seen through what it gives its caller: stats with partial false or true, or an
\* exception.
MaxDays == 2
FetchResults == {"complete", "partial", "raises"}
NoStats == "none"

\* an entry of the audit list; error, retry_error and partial tell whether the entry
\* carries the key (partial is only ever set to True)
NoEntry == [date |-> 0, error |-> FALSE, stats |-> NoStats, retry1 |-> NoStats,
            retry2 |-> NoStats, retry_error |-> FALSE, partial |-> FALSE]
ErrorEntry(d) == [NoEntry EXCEPT !.date = d, !.error = TRUE, !.partial = TRUE]
StatsEntry(d, st) == [NoEntry EXCEPT !.date = d, !.stats = st]

NoResponse == [kind |-> "none"]
NoClient == [pc |-> "idle", d |-> 0, last |-> 0, attempt |-> 0, is_partial |-> FALSE,
             total_ok |-> 0, total_partial |-> 0, total_errors |-> 0]
\* json_error, lines 36-40
JsonError(status) == [kind |-> "error", status |-> status, ok |-> FALSE,
                      partial |-> "absent", result |-> <<>>]
\* json_ok({"result": out}), lines 32-34 and 516
JsonOk(audit) == [kind |-> "ok", status |-> 200, ok |-> TRUE,
                  partial |-> "absent", result |-> audit]

\* lines 499 and 503: stats.get("partial")
RetryAlways(st) == TRUE
NeedsRetry(st) == st = "partial"

\* lines 496-497 and 514: the date after the one just recorded
AbortAfterError(d, e) == e + 1
NextDate(d, e) == d + 1

BackfillInit ==
    /\ bpc = "idle"
    /\ b_start = 0
    /\ b_end = 0
    /\ b_d = 0
    /\ entry = NoEntry
    /\ out = <<>>
    /\ response = NoResponse
    /\ calls = <<>>

\* lines 476-488: no token, bad dates, or no symbols
BackfillReject(status) ==
    /\ bpc = "idle"
    /\ response' = JsonError(status)
    /\ bpc' = "done"
    /\ UNCHANGED <<b_start, b_end, b_d, entry, out, calls>>

\* lines 476-491: the request is accepted
BackfillStart(s, e) ==
    /\ bpc = "idle"
    /\ b_start' = s
    /\ b_end' = e
    /\ b_d' = s
    /\ out' = <<>>
    /\ bpc' = "loop"
    /\ UNCHANGED <<entry, response, calls>>

\* lines 492-501: the first call for the date
FirstAttempt(o) ==
    /\ bpc = "loop"
    /\ b_d <= b_end
    /\ calls' = <<o>>
    /\ IF o = "raises"
       THEN /\ out' = Append(out, ErrorEntry(b_d))
            /\ b_d' = NextDate(b_d, b_end)
            /\ UNCHANGED <<bpc, entry>>
       ELSE /\ entry' = StatsEntry(b_d, o)
            /\ bpc' = IF NeedsRetry(o) THEN "retry1" ELSE "append"
            /\ UNCHANGED <<out, b_d>>
    /\ UNCHANGED <<b_start, b_end, response>>

\* lines 502-505 and 509-511
Retry1(o) ==
    /\ bpc = "retry1"
    /\ calls' = Append(calls, o)
    /\ IF o = "raises"
       THEN /\ entry' = [entry EXCEPT !.retry_error = TRUE, !.partial = TRUE]
            /\ bpc' = "append"
       ELSE /\ entry' = [entry EXCEPT !.retry1 = o]
            /\ bpc' = IF NeedsRetry(o) THEN "retry2" ELSE "append"
    /\ UNCHANGED <<b_start, b_end, b_d, out, response>>

\* lines 506-511
Retry2(o) ==
    /\ bpc = "retry2"
    /\ calls' = Append(calls, o)
    /\ entry' = IF o = "raises"
                THEN [entry EXCEPT !.retry_error = TRUE, !.partial = TRUE]
                ELSE [entry EXCEPT !.retry2 = o]
    /\ bpc' = "append"
    /\ UNCHANGED <<b_start, b_end, b_d, out, response>>

\* lines 513-514
AppendEntry ==
    /\ bpc = "append"
    /\ out' = Append(out, entry)
    /\ b_d' = NextDate(b_d, b_end)
    /\ entry' = NoEntry
    /\ bpc' = "loop"
    /\ UNCHANGED <<b_start, b_end, response, calls>>

\* lines 492 and 516: the loop is over
BackfillReturn ==
    /\ bpc = "loop"
    /\ b_d > b_end
    /\ response' = JsonOk(out)
    /\ bpc' = "done"
    /\ UNCHANGED <<b_start, b_end, b_d, entry, out, calls>>

\* the client has the response; the locals of the request are gone
BackfillCollect ==
    /\ bpc = "done"
    /\ bpc' = "idle"
    /\ b_start' = 0
    /\ b_end' = 0
    /\ b_d' = 0
    /\ entry' = NoEntry
    /\ out' = <<>>
    /\ response' = NoResponse
    /\ calls' = <<>>

Backfill(A) == A /\ UNCHANGED <<rvars, avars, fvars, svars, planner, hvars, uvars, zvars, lvars>>

BackfillNext ==
    \/ \E status \in {400, 403} : Backfill(BackfillReject(status))
    \/ \E s \in 1..MaxDays, e \in 0..MaxDays : Backfill(BackfillStart(s, e))
    \/ \E o \in FetchResults : Backfill(FirstAttempt(o))
    \/ \E o \in FetchResults : Backfill(Retry1(o))
    \/ \E o \in FetchResults : Backfill(Retry2(o))
    \/ Backfill(AppendEntry)
    \/ Backfill(BackfillReturn)
    \/ Backfill(BackfillCollect)

\* ------------------------------------------------------------------ call_backfill_range
\* call_backfill_range.py lines 69-191: the command sends one request per date to
\* backfill_range (start = end = the date), looks for a partial attempt in the entries
\* of the response, and asks again while it finds one and attempts remain. The server
\* side of each request is the backfill_range handler above.
ClientRetries == 2

\* lines 147-162: is_partial for the entries of data["result"]
EntryPartial(e) == e.stats = "partial" \/ e.retry1 = "partial" \/ e.retry2 = "partial"
IsPartial(audit) == \E i \in 1..Len(audit) : EntryPartial(audit[i])

\* lines 83-84 and 119-124
ClientStart(s, e) ==
    /\ client.pc = "idle"
    /\ bpc = "idle"
    /\ client' = IF e < s THEN [NoClient EXCEPT !.pc = "raised"]
                 ELSE [NoClient EXCEPT !.pc = "request", !.d = s, !.last = e, !.attempt = 1]
    /\ UNCHANGED bvars

\* lines 124-132: the request for the date reaches the handler, which takes it
ClientPost ==
    /\ client.pc = "request"
    /\ client.d <= client.last
    /\ BackfillStart(client.d, client.d)
    /\ client' = [client EXCEPT !.pc = "wait"]

\* lines 124-132: the request for the date reaches the handler, which rejects it
ClientPostRejected(status) ==
    /\ client.pc = "request"
    /\ client.d <= client.last
    /\ BackfillReject(status)
    /\ client' = [client EXCEPT !.pc = "wait"]

\* inside the handler
Served(A) == A /\ UNCHANGED client

\* lines 133-179: the response (or the failure of the request) is handled
ClientReceive(net_ok) ==
    /\ client.pc = "wait"
    /\ bpc = "done"
    /\ LET found == IsPartial(response.result)
       IN client' =
            IF ~net_ok \/ response.status \notin {200, 206}
            THEN [client EXCEPT !.pc = "request", !.d = @ + 1, !.attempt = 1,
                                !.is_partial = FALSE, !.total_errors = @ + 1]
            ELSE IF found /\ client.attempt < ClientRetries
            THEN [client EXCEPT !.pc = "request", !.attempt = @ + 1, !.is_partial = TRUE]
            ELSE [client EXCEPT !.pc = "request", !.d = @ + 1, !.attempt = 1,
                                !.is_partial = found,
                                !.total_partial = @ + (IF found THEN 1 ELSE 0),
                                !.total_ok = @ + (IF found THEN 0 ELSE 1)]
    /\ BackfillCollect

\* lines 181-191
ClientFinish ==
    /\ client.pc = "request"
    /\ client.d > client.last
    /\ client' = [client EXCEPT !.pc = IF client.total_errors > 0 THEN "raised" ELSE "done"]
    /\ UNCHANGED bvars

\* the command is over
ClientCollect ==
    /\ client.pc \in {"done", "raised"}
    /\ client' = NoClient
    /\ UNCHANGED bvars

Client(A) ==
    A /\ UNCHANGED <<rvars, avars, fvars, svars, planner, hvars, uvars, lvars, estimate, http>>

ClientNext ==
    \/ \E s \in 1..MaxDays, e \in 1..MaxDays : Client(ClientStart(s, e))
    \/ Client(ClientPost)
    \/ \E status \in {400, 403} : Client(ClientPostRejected(status))
    \/ \E o \in FetchResults : Client(Served(FirstAttempt(o)))
    \/ \E o \in FetchResults : Client(Served(Retry1(o)))
    \/ \E o \in FetchResults : Client(Served(Retry2(o)))
    \/ Client(Served(AppendEntry))
    \/ Client(Served(BackfillReturn))
    \/ \E net_ok \in BOOLEAN : Client(ClientReceive(net_ok))
    \/ Client(ClientFinish)
    \/ Client(ClientCollect)

\* ------------------------------------------------------------------ fallback budget
\* The computation of lines 203-207 for settings and elapsed times in whole seconds.
MaxRpm == 2              \* largest POLYGON_RPM tried
MaxBurstCap == 2         \* largest INTERNAL_FALLBACK_BURST tried
MaxSleep == 2            \* largest INTERNAL_SLEEP tried, in seconds
TimeStep == 30           \* the time budget and the elapsed time are multiples of it
MaxTimeSteps == 4

NotComputed == 0 - 1
NoPlan == [rpm |-> 0, br |-> 0, max_s |-> 0, sleep |-> 0, el |-> 0, budget |-> NotComputed]
PlannerInputs ==
    [rpm : 0..MaxRpm, br : 0..MaxBurstCap,
     max_s : {k * TimeStep : k \in 0..MaxTimeSteps},
     sleep : 0..MaxSleep,
     el : {k * TimeStep : k \in 0..MaxTimeSteps},
     budget : {NotComputed}]

\* lines 203-207 applied to the inputs
PlanBudget ==
    /\ planner.budget = NotComputed
    /\ planner # NoPlan
    /\ planner' = [planner EXCEPT !.budget =
                       FallbackBudget(planner.br, planner.rpm, planner.max_s,
                                      planner.sleep, planner.el)]
    /\ UNCHANGED <<rvars, avars, fvars, svars, bvars, hvars, uvars, zvars, lvars>>

\* the next computation, with other inputs
Replan(inputs) ==
    /\ planner.budget # NotComputed
    /\ planner' = inputs
    /\ UNCHANGED <<rvars, avars, fvars, svars, bvars, hvars, uvars, zvars, lvars>>

BudgetNext ==
    \/ PlanBudget
    \/ \E inputs \in PlannerInputs \ {NoPlan} : Replan(inputs)

\* ------------------------------------------------------------------ runner sleep
\* simple_jobs.py lines 208-210: whether time.sleep ran after the last batch. The flag
\* is lowered when the while test opens another batch, so it is up exactly while the
\* last thing the loop did was sleep.

\* line 209
Sleeps(i, n) == i < n

Sleeping(A) ==
    /\ A
    /\ slept' = IF pc = "for" /\ pc' = "while" THEN Sleeps(idx', Len(order))
                ELSE IF pc' \in {"for", "idle"} \/ pc = "idle" THEN FALSE
                ELSE slept
    /\ UNCHANGED <<avars, fvars, svars, bvars, planner, hvars, uvars, zvars, eod_calls, passed>>

SleepNext ==
    \/ \E k \in 1..MaxSymbols, d \in 0..max_seconds : Sleeping(Start(Asc(k), TRUE, d))
    \/ Sleeping(WhileTest)
    \/ \E fails \in 0..3, d \in 0..max_seconds : Sleeping(ProcessSymbol(fails, d))
    \/ \E d \in 0..max_seconds : Sleeping(EndBatch(d))
    \/ Sleeping(Finish(TRUE, FALSE))
    \/ Sleeping(RunnerCollect)

\* ------------------------------------------------------------------ precalc
\* views_internal.py lines 387-404: the view calls the runner and maps its result to
\* an HTTP status. The runner's steps are the runner's actions; the view answers when
\* the invocation has ended.

\* line 403
status_code(ok, part) == IF ok /\ ~part THEN 200 ELSE IF ok THEN 206 ELSE 200

PrecalcResponse(status, res) == [kind |-> "json", status |-> status, body |-> res]

\* lines 395-396
PrecalcForbidden ==
    /\ pc = "idle"
    /\ http' = PrecalcResponse(403, NoResult)
    /\ UNCHANGED <<rvars, client, estimate>>

\* line 402, entering the runner
PrecalcCall(A) == A /\ http' = NoResponse /\ UNCHANGED <<client, estimate>>

\* inside the runner
PrecalcStep(A) == A /\ UNCHANGED zvars

\* lines 403-404; an exception of the runner leaves the view and Django answers 500
PrecalcRespond ==
    /\ pc = "done"
    /\ result.kind \in {"returned", "raised"}
    /\ http' = IF result.kind = "returned"
               THEN PrecalcResponse(status_code(result.ok, result.partial), result)
               ELSE PrecalcResponse(500, NoResult)
    /\ RunnerCollect
    /\ UNCHANGED <<client, estimate>>

PrecalcWrap(A) == A /\ UNCHANGED <<avars, fvars, svars, bvars, planner, hvars, uvars, lvars>>

PrecalcNext ==
    \/ PrecalcWrap(PrecalcForbidden)
    \/ \E k \in 0..MaxSymbols : PrecalcWrap(PrecalcCall(UniverseEmpty(Asc(k))))
    \/ \E k \in 0..MaxSymbols : PrecalcWrap(PrecalcCall(MkdirFails(Asc(k))))
    \/ \E k \in 0..MaxSymbols, d \in 0..max_seconds :
          PrecalcWrap(PrecalcCall(Start(Asc(k), TRUE, d)))
    \/ PrecalcWrap(PrecalcStep(WhileTest))
    \/ \E fails \in 0..3, d \in 0..max_seconds :
          PrecalcWrap(PrecalcStep(ProcessSymbol(fails, d)))
    \/ \E d \in 0..max_seconds : PrecalcWrap(PrecalcStep(EndBatch(d)))
    \/ PrecalcWrap(PrecalcStep(LoopFails(TRUE, FALSE)))
    \/ PrecalcWrap(PrecalcStep(Finish(TRUE, FALSE)))
    \/ PrecalcWrap(PrecalcRespond)

\* ------------------------------------------------------------------ trading days
\* Dates are day numbers; day 0 is a Monday, so d % 7 is date.weekday().
FirstDate == 7
MaxSpan == 13            \* the dates tried are FirstDate..FirstDate + MaxSpan
MaxCap == 3              \* largest MAX_BACKFILL_DAYS tried

weekday(d) == d % 7

\* trading_days.py lines 3-10
RECURSIVE last_us_trading_day(_)
last_us_trading_day(d) ==
    IF weekday(d) >= 5 THEN last_us_trading_day(d - 1) ELSE d

\* views_internal.py lines 272-276: the loop, from its state (count, d)
RECURSIVE CountBack(_, _, _, _)
CountBack(start_d, d, cap, count) ==
    IF d > start_d /\ count < cap
    THEN CountBack(start_d, last_us_trading_day(d - 1), cap, count + 1)
    ELSE count

\* views_internal.py lines 262-276
trading_days_between_exclusive(start_d, end_d, cap) ==
    IF start_d >= end_d THEN 0 ELSE CountBack(start_d, end_d, cap, 0)

NoEstimate == [start_d |-> 0, end_d |-> 0, cap |-> 0, gap |-> NotComputed]
EstimateInputs ==
    [start_d : FirstDate..(FirstDate + MaxSpan), end_d : FirstDate..(FirstDate + MaxSpan),
     cap : 1..MaxCap, gap : {NotComputed}]

Estimate ==
    /\ estimate.gap = NotComputed
    /\ estimate # NoEstimate
    /\ estimate' = [estimate EXCEPT !.gap =
                        trading_days_between_exclusive(estimate.start_d, estimate.end_d,
                                                       estimate.cap)]
    /\ UNCHANGED <<rvars, avars, fvars, svars, bvars, planner, hvars, uvars, lvars, http, client>>

\* the next count, for other dates
Reestimate(inputs) ==
    /\ estimate.gap # NotComputed
    /\ estimate' = inputs
    /\ UNCHANGED <<rvars, avars, fvars, svars, bvars, planner, hvars, uvars, lvars, http, client>>

EstimateNext ==
    \/ Estimate
    \/ \E inputs \in EstimateInputs : Reestimate(inputs)

\* ------------------------------------------------------------------ specifications
CoreInit ==
    /\ RunnerInit
    /\ runs = 0
    /\ total = 0
    /\ clean = TRUE
    /\ FetcherInit
    /\ called = <<>>
    /\ outcomes = <<>>
    /\ BackfillInit
    /\ ObservedInit
    /\ UpsertInit
    /\ slept = FALSE
    /\ eod_calls = <<>>
    /\ passed = <<>>
    /\ http = NoResponse
    /\ client = NoClient

Init ==
    /\ CoreInit
    /\ planner = NoPlan
    /\ estimate = NoEstimate

\* the budget computation starts from any inputs
InitBudget ==
    /\ CoreInit
    /\ planner \in PlannerInputs \ {NoPlan}
    /\ estimate = NoEstimate

\* the count starts from any dates and cap
InitEstimate ==
    /\ CoreInit
    /\ planner = NoPlan
    /\ estimate \in EstimateInputs

\* the accounts of the resumed runs are kept by SpecResume only
Runner(A) == A /\ UNCHANGED avars /\ UNCHANGED fvars /\ UNCHANGED <<svars, bvars, planner, hvars, uvars, zvars, lvars>>

Next ==
    \/ \E raw \in RawUniverses : Runner(UniverseEmpty(raw))
    \/ \E raw \in RawUniverses : Runner(MkdirFails(raw))
    \/ \E raw \in RawUniverses, read_ok \in BOOLEAN, d \in 0..max_seconds :
          Runner(Start(raw, read_ok, d))
    \/ Runner(WhileTest)
    \/ \E fails \in 0..3, d \in 0..max_seconds : Runner(ProcessSymbol(fails, d))
    \/ \E d \in 0..max_seconds : Runner(EndBatch(d))
    \/ \E io_ok \in BOOLEAN, truncated \in BOOLEAN : Runner(LoopFails(io_ok, truncated))
    \/ \E io_ok \in BOOLEAN, truncated \in BOOLEAN : Runner(Finish(io_ok, truncated))
    \/ \E truncated \in BOOLEAN : Runner(Crash(truncated))
    \/ Runner(RunnerCollect)

Spec == Init /\ [][Next]_vars

SpecResume == Init /\ [][ResumeNext]_vars

SpecSubtasks == Init /\ [][SubtaskNext]_vars

SpecBackfill == Init /\ [][BackfillNext]_vars

SpecBudget == InitBudget /\ [][BudgetNext]_vars

SpecObserved == Init /\ [][ObservedNext]_vars

SpecUpsert == Init /\ [][UpsertNext]_vars

SpecEstimate == InitEstimate /\ [][EstimateNext]_vars

SpecPrecalc == Init /\ [][PrecalcNext]_vars

SpecSleep == Init /\ [][SleepNext]_vars

SpecCalls == Init /\ [][LoggedNext]_vars

SpecClient == Init /\ [][ClientNext]_vars

Fetcher(A) == A /\ UNCHANGED rvars /\ UNCHANGED avars /\ UNCHANGED <<svars, bvars, planner, hvars, uvars, zvars, lvars>>

FetchNext ==
    \/ \E U \in SUBSET SetOf(AllSymbols), g \in GroupedOutcomes,
          d \in 0..INTERNAL_MAX_SECONDS : Fetcher(Grouped(U, g[1], g[2], d))
    \/ \E p \in SingleOutcomes, a \in AltOutcomes, d \in 0..INTERNAL_MAX_SECONDS :
          Fetcher(Fallback(p, a, d))
    \/ Fetcher(NoFallback)
    \/ Fetcher(Return)
    \/ Fetcher(Collect(FALSE))

SpecFetch == Init /\ [][FetchNext]_vars

\* Re-invocations for one date and one universe while the vendor answers every
\* single-symbol request with a bar, the grouped request does not fail outside
\* Forbidden, and no time passes (so the budget is never 0); an invocation that can
\* run does run.
Refetch(U, g, rows) ==
    /\ uni_orig = <<>> \/ SetOf(uni_orig) = U
    /\ U # {}
    /\ g # "error"
    /\ Grouped(U, g, rows, 0)

RefetchNext ==
    \/ \E U \in SUBSET SetOf(AllSymbols), g \in GroupedOutcomes :
          Fetcher(Refetch(U, g[1], g[2]))
    \/ Fetcher(Fallback("bar", "bar", 0))
    \/ Fetcher(Return)
    \/ Fetcher(Collect(TRUE))

SpecRefetch == Init /\ [][RefetchNext]_vars /\ WF_vars(RefetchNext)

\* ------------------------------------------------------------------ claims: runner

\* C1: at-least-once. Whenever a normal exit finds the cursor at len(order) and
\* clears the checkpoint, every symbol of the order has had its subtasks run since
\* the order was (re)initialised, whatever invocations, time-box exits and crashes
\* came before.
C1_AtLeastOnce ==
    [][(pc = "save" /\ pc' = "done" /\ result'.kind = "returned"
            /\ ~result'.partial /\ progress_file' = Absent)
          => SetOf(order) \subseteq ran]_vars

\* C6: resumability. With universe size N and burst B < N, no crash and no I/O
\* failure, every invocation entering its loop: the invocation that is number
\* ceil(N/B) on the checkpoint has reached cursor = N, and when cursor = N is reached
\* that took at most ceil(N/B) invocations, the checkpoint is deleted and the
\* processed counts of those invocations sum to N.
C6_Resumability ==
    [][(pc = "save" /\ pc' = "done" /\ clean)
          => /\ runs >= CeilDiv(Len(order), burst) => idx = Len(order)
             /\ idx = Len(order) =>
                   /\ runs <= CeilDiv(Len(order), burst)
                   /\ progress_file' = Absent
                   /\ total' = Len(order)]_vars

\* C7: at every ok=true return partial is true exactly when
\* cursor < len(order); if partial the stored checkpoint is exactly the current order
\* and cursor; if not partial no checkpoint exists and the next invocation starts at
\* cursor 0 with the freshly resolved order.
C7_ExitCheckpoint ==
    [][/\ (pc = "save" /\ pc' = "done" /\ result'.kind = "returned") =>
            /\ result'.ok
            /\ result'.partial <=> (idx < Len(order))
            /\ result'.partial => progress_file' = Saved(idx, order)
            /\ ~result'.partial => progress_file' = Absent
       /\ (Starting /\ progress_file = Absent) => (idx' = 0 /\ order' = symbols')]_vars

\* C8: loading reinitialises (order = fresh universe, cursor = 0) exactly
\* when no checkpoint exists or the persisted set differs from the fresh set; with
\* equal sets the persisted order and cursor are kept.
C8_LoadOrReset ==
    [][Starting =>
         IF progress_file.tag = "saved" /\ SetOf(progress_file.order) = SetOf(symbols')
         THEN order' = progress_file.order /\ idx' = progress_file.idx
         ELSE order' = symbols' /\ idx' = 0]_vars

\* C9: 0 <= cursor <= len(order), in memory and in every persisted checkpoint.
C9_CursorInRange ==
    /\ 0 <= idx /\ idx <= Len(order)
    /\ progress_file.tag = "saved" =>
          /\ 0 <= progress_file.idx
          /\ progress_file.idx <= Len(progress_file.order)

\* a resumed invocation whose last batch was cut by the end of the order
C9_Witness ==
    /\ pc = "while"
    /\ loaded = "resumed"
    /\ idx = Len(order)
    /\ idx < idx0 + burst
    /\ idx0 > 0

\* C10: the runner never raises past its boundary: every invocation ends with a
\* returned record, and a failure outside the subtasks (preparing the checkpoint
\* location, reading or parsing the checkpoint, saving or deleting it) gives ok=false,
\* partial=true.
C10_NeverRaises ==
    /\ result.kind # "raised"
    /\ (result.kind = "returned" /\ (io_failed \/ loaded = "unreadable"))
          => (~result.ok /\ result.partial)

\* C11: for every processed symbol the three subtasks are invoked in the order daily
\* indicators, weekly indicators, daily signal, whatever the earlier ones did; each
\* failing subtask adds exactly 1 to errors; the failures change neither the walk
\* through the batch nor the cursor, and the normal exit still reports ok=true.
C11_SubtasksContinue ==
    [][/\ (pc = "for" /\ pos' = pos + 1) =>
            /\ called' = SUBTASKS
            /\ errors' = errors + Cardinality({i \in 1..3 : outcomes'[i] = "raises"})
            /\ processed' = processed + 1
            /\ pc' = "for" /\ idx' = idx /\ end' = end /\ order' = order
       /\ (pc = "for" /\ pc' = "while") => idx' = Min(Len(order), idx + burst)
       /\ (pc = "save" /\ pc' = "done") =>
            (result'.ok /\ result'.errors = errors /\ result'.processed = processed)]_vars

\* every subtask of two symbols failed and the invocation completed with ok=true
C11_Witness ==
    /\ pc = "done"
    /\ result.kind = "returned" /\ result.ok /\ ~result.partial
    /\ result.processed = 2 /\ result.errors = 6
    /\ outcomes = <<"raises", "raises", "raises">>

\* ------------------------------------------------------------------ claims: fetcher

\* C2: the fetcher never raises to its caller: whatever the grouped fetch and the
\* single-symbol fetches do, the invocation ends with a returned stats record.
C2_FetcherNeverRaises == stats.kind # "raised"

\* C3: a result with partial=false means every symbol of the requested universe was
\* upserted for the date by this invocation, by the grouped stage or by a successful
\* fallback call.
C3_NotPartialAllStored ==
    (fpc = "done" /\ stats.kind = "returned" /\ ~stats.partial)
        => (SetOf(uni_orig) \subseteq written /\ SetOf(uni_orig) \subseteq store)

\* partial=false after both stages stored something
C3_Witness ==
    /\ fpc = "done"
    /\ stats.kind = "returned" /\ ~stats.partial
    /\ stats.grouped_upserted > 0
    /\ stats.fallback_ok > 0

\* C4: when the fallback stage ran, the returned partial is true exactly when a
\* universe symbol is still missing, or the loop left early on the time test, or the
\* budget is smaller than the number of missing symbols.
C4_PartialExactly ==
    [][(fpc = "return" /\ fpc' = "done")
          => (stats'.partial <=>
                 \/ ~(SetOf(uni_orig) \subseteq written)
                 \/ timed_out
                 \/ fallback_budget < Len(missing_orig))]_vars

\* C5: with every single-symbol bar obtainable, repeated invocations for the date and
\* universe eventually return partial=false with every universe symbol stored.
C5_EventuallyComplete ==
    <>(/\ fpc = "done"
       /\ stats.kind = "returned" /\ ~stats.partial
       /\ SetOf(uni_orig) \subseteq store)

\* C16 as stated: if the grouped response has a usable row for every universe symbol,
\* no single-symbol call is made, fallback_attempted is 0 and partial is false.
C16_AsStated ==
    (fpc = "done" /\ stats.kind = "returned" /\ g_kind = "rows"
        /\ g_usable = SetOf(uni_orig))
      => (singles = <<>> /\ stats.fallback_attempted = 0 /\ ~stats.partial)

\* C16 amended: the same, provided no two universe symbols share one vendor spelling
\* (of two that do, only the first keeps the grouped row and the other goes to the
\* fallback stage).
C16_FullGroupedNoFallback ==
    (fpc = "done" /\ stats.kind = "returned" /\ g_kind = "rows"
        /\ g_usable = SetOf(uni_orig)
        /\ \A i, j \in 1..Len(uni_orig) :
              normalize_for_polygon(uni_orig[i]) = normalize_for_polygon(uni_orig[j])
                  => i = j)
      => (singles = <<>> /\ stats.fallback_attempted = 0 /\ ~stats.partial)

\* two symbols, both matched by the grouped response
C16_Witness ==
    /\ fpc = "done"
    /\ stats.kind = "returned"
    /\ g_kind = "rows"
    /\ Len(uni_orig) = 2
    /\ g_usable = SetOf(uni_orig)
    /\ got_syms_orig = SetOf(uni_orig)
    /\ stats.grouped_upserted = 2
    /\ ~stats.partial

\* C17 as stated: if the grouped request raises Forbidden, the missing set is the
\* whole universe and fallback_attempted >= min(missing count, computed budget).
C17_AsStated ==
    (fpc = "done" /\ stats.kind = "returned" /\ g_kind = "forbidden") =>
        /\ missing_orig = uni_orig
        /\ stats.fallback_attempted >=
              Min(Len(missing_orig),
                  FallbackBudget(INTERNAL_FALLBACK_BR, POLYGON_RPM,
                                 INTERNAL_MAX_SECONDS, INTERNAL_SLEEP, g_time))

\* C17 amended: the missing set is the whole universe, and unless the fallback loop
\* leaves early on its time test fallback_attempted >= min(missing count, computed
\* budget).
C17_ForbiddenAllMissing ==
    (fpc = "done" /\ stats.kind = "returned" /\ g_kind = "forbidden") =>
        /\ missing_orig = uni_orig
        /\ ~timed_out =>
              stats.fallback_attempted >=
                  Min(Len(missing_orig),
                      FallbackBudget(INTERNAL_FALLBACK_BR, POLYGON_RPM,
                                     INTERNAL_MAX_SECONDS, INTERNAL_SLEEP, g_time))

\* Forbidden, three symbols missing, the budget of 2 spent on two of them
C17_Witness ==
    /\ fpc = "done"
    /\ stats.kind = "returned"
    /\ g_kind = "forbidden"
    /\ Len(missing_orig) = 3
    /\ fallback_budget = 2
    /\ ~timed_out
    /\ stats.fallback_attempted >= 2

\* C18 as stated: if one single-symbol call takes longer than the whole time budget
\* and symbols are missing after the grouped stage, no fallback call occurs and
\* partial is true.
C18_AsStated ==
    (fpc = "done" /\ stats.kind = "returned" /\ missing_orig # <<>> /\ slow)
      => (singles = <<>> /\ stats.fallback_attempted = 0 /\ stats.partial)

\* C18 amended: if, with symbols missing after the grouped stage, the time budget is
\* already used up or the time left is shorter than one sleep interval, no fallback
\* call occurs and partial is true. (The time test comes before a call, so a call
\* that starts in time is made however long it takes.)
C18_NoTimeNoFallback ==
    (/\ fpc = "done" /\ stats.kind = "returned" /\ missing_orig # <<>>
     /\ \/ g_time >= INTERNAL_MAX_SECONDS
        \/ INTERNAL_MAX_SECONDS - g_time < INTERNAL_SLEEP)
      => (singles = <<>> /\ stats.fallback_attempted = 0 /\ stats.partial)

\* time is left after the grouped stage, but less than one sleep interval
C18_Witness ==
    /\ fpc = "done"
    /\ stats.kind = "returned"
    /\ missing_orig # <<>>
    /\ g_time < INTERNAL_MAX_SECONDS
    /\ fallback_budget = 0
    /\ stats.fallback_attempted = 0
    /\ stats.partial

C12_RetryWhilePartial ==
    [][/\ calls' # <<>> =>
            /\ Len(calls') <= 3
            /\ \A i \in 1..(Len(calls') - 1) : calls'[i] = "partial"
       /\ Len(out') = Len(out) + 1 =>
            LET e == out'[Len(out')]
                c == calls'
                rec(i) == IF Len(c) >= i /\ c[i] # "raises" THEN c[i] ELSE NoStats
            IN /\ Len(c) >= 1
               /\ Len(c) < 3 => c[Len(c)] # "partial"
               /\ e.stats = rec(1) /\ e.retry1 = rec(2) /\ e.retry2 = rec(3)
               /\ c = <<"partial", "partial", "complete">> => ~e.partial]_vars

\* a date recorded after partial, partial, complete
C12_Witness ==
    /\ bpc = "loop"
    /\ calls = <<"partial", "partial", "complete">>
    /\ out # <<>>
    /\ out[Len(out)].stats = "partial"
    /\ out[Len(out)].retry1 = "partial"
    /\ out[Len(out)].retry2 = "complete"
    /\ ~out[Len(out)].partial

\* C13: the audit list has exactly one entry per calendar date of [start, end], in
\* ascending order, whatever the fetcher raised: an exception of the first attempt
\* or of a retry is recorded in the entry of its date and the later dates are still
\* processed.
C13_OneEntryPerDate ==
    /\ \A i \in 1..Len(out) : out[i].date = b_start + i - 1
    /\ bpc \in {"loop", "retry1", "retry2", "append"} => Len(out) = b_d - b_start
    /\ (bpc = "done" /\ response.kind = "ok") =>
          /\ response.result = out
          /\ Len(out) = Max(0, b_end - b_start + 1)
    /\ calls = <<"raises">> => (out # <<>> /\ out[Len(out)] = ErrorEntry(b_d - 1))
    /\ (bpc = "append" /\ "raises" \in SetOf(calls)) =>
          (entry.retry_error /\ entry.partial /\ entry.date = b_d)

\* the first date failed on its first attempt, the second on a retry, both recorded
C13_Witness ==
    /\ bpc = "done"
    /\ response.kind = "ok"
    /\ Len(response.result) = 2
    /\ response.result[1].error
    /\ response.result[2].retry_error

\* C14: the response carries an overall partial indication that is true exactly when
\* some date is still partial after its attempts (its entry is marked partial or its
\* last recorded result is partial), and the status is 206 then and 200 otherwise.
C14_OverallPartial ==
    (bpc = "done" /\ response.kind = "ok") =>
        LET last(e) == IF e.retry2 # NoStats THEN e.retry2
                       ELSE IF e.retry1 # NoStats THEN e.retry1 ELSE e.stats
            still == \E i \in 1..Len(out) : out[i].partial \/ last(out[i]) = "partial"
        IN /\ response.partial = "true" <=> still
           /\ response.status = IF still THEN 206 ELSE 200

\* ------------------------------------------------------------------ claims: budget

\* C15: the budget equals max(0, min(burstCap, floor(rpm * minutesRemaining),
\* floor(secondsRemaining / sleepInterval))), the remaining time being the time
\* budget minus the time elapsed after the grouped stage; it is never negative and
\* it is 0 when no time remains.
C15_BudgetFormula ==
    (planner.budget # NotComputed /\ planner.sleep >= 1) =>
        LET secondsRemaining == Max(0, planner.max_s - planner.el)
        IN /\ planner.budget =
                 Max(0, Min(planner.br,
                            Min((planner.rpm * secondsRemaining) \div 60,
                                secondsRemaining \div planner.sleep)))
           /\ planner.budget >= 0
           /\ secondsRemaining = 0 => planner.budget = 0

\* ------------------------------------------------------------------ claims: upsert

\* C20: a call of _upsert_prices that returns leaves a table that the same call
\* leaves as it is (idempotence); the row of every key it names holds all six fields
\* of the last row given for that key (last write wins); the rows of all other keys
\* are as before.
C20_UpsertIdempotent ==
    [][upserted'.kind = "returned" =>
         LET date == last_upsert'.date
             rows == last_upsert'.rows
             named == {<<rows[i].symbol, date>> : i \in 1..Len(rows)}
         IN /\ UpsertPrices(prices', date, rows) = prices'
            /\ \A i \in 1..Len(rows) :
                  (\A j \in (i + 1)..Len(rows) : rows[j].symbol # rows[i].symbol)
                      => prices'[<<rows[i].symbol, date>>] = rows[i].bar
            /\ \A k \in PriceKeys \ named : prices'[k] = prices[k]]_vars

\* a stored bar was overwritten by a call while another key kept its bar
C20_Witness ==
    /\ upserted.kind = "returned"
    /\ last_upsert.rows = <<[symbol |-> "AAPL", bar |-> Bar(2)]>>
    /\ last_upsert.date = 1
    /\ prices[<<"AAPL", 1>>] = Bar(2)
    /\ prices[<<"AAPL", 2>>] = Bar(1)
    /\ prices[<<"BRK", 1>>] = Bar(1)

\* ------------------------------------------------------------------ claims: trading days

\* C21: for every anchor, target and cap >= 1 the count returned is the number of
\* weekdays d with anchor < d <= target, limited to cap, and 0 when anchor >= target.
C21_WeekdaysBetween ==
    estimate.gap # NotComputed =>
        /\ estimate.gap =
              Min(estimate.cap,
                  Cardinality({d \in (estimate.start_d + 1)..estimate.end_d :
                                  weekday(d) < 5}))
        /\ estimate.start_d >= estimate.end_d => estimate.gap = 0

\* ------------------------------------------------------------------ claims: precalc

\* C22: the precalc view answers 206 to every runner result with partial=true, 200
\* only to a result with ok=true and partial=false, and a status other than 200 to a
\* result with ok=false.
C22_StatusMapping ==
    [][(pc = "done" /\ pc' = "idle" /\ result.kind = "returned") =>
          /\ result.partial => http'.status = 206
          /\ http'.status = 200 => (result.ok /\ ~result.partial)
          /\ ~result.ok => http'.status # 200]_vars
\* ------------------------------------------------------------------ claims: fallback calls

\* C23: the single-symbol calls of one invocation, primary and alternate together,
\* never exceed the fallback budget computed for it, and so never the burst cap.
C23_CallsWithinBudget ==
    fpc \in {"loop", "return"} =>
        /\ Len(eod_calls) <= fallback_budget
        /\ Len(eod_calls) <= INTERNAL_FALLBACK_BR

\* C24: no single-symbol call, primary or alternate, starts when the elapsed time is
\* already at or beyond the time budget.
C24_NoCallAfterBudget ==
    \A i \in 1..Len(eod_calls) : eod_calls[i].at < INTERNAL_MAX_SECONDS

\* C25: after a NotFound answer exactly one alternate class spelling is tried if and
\* only if the normalized symbol has one, http_404 is incremented for the symbol only
\* if it is still not found after that (or there is no alternate), and the loop goes on.
C25_AlternateThenCount ==
    [][LET n == Len(eod_calls)
           m == Len(eod_calls')
       IN (m > n /\ eod_calls'[n + 1].outcome = "notfound") =>
             LET first == eod_calls'[n + 1]
                 alt == alt_class_symbol(first.symbol)
             IN /\ m = (IF alt # NoSymbol THEN n + 2 ELSE n + 1)
                /\ m = n + 2 => (eod_calls'[m].alt /\ eod_calls'[m].symbol = alt)
                /\ http_404' = http_404 + 1 => (m = n + 1 \/ eod_calls'[m].outcome # "bar")
                /\ http_404' \in {http_404, http_404 + 1}
                /\ stats' = stats
                /\ fpc' \in {"loop", "return"}]_vars

\* C26: after a Forbidden answer the symbol is abandoned for the invocation: one call
\* was made for it and no other follows (no alternate spelling, no retry), it is
\* counted once (in fallback_attempted and in no other counter), nothing is stored for
\* it, and the loop goes on to the next symbol of the slice if there is one.
C26_ForbiddenAbandoned ==
    /\ [](\A i \in 1..Len(eod_calls) : eod_calls[i].outcome = "forbidden" =>
              \A j \in 1..Len(eod_calls) : j # i => eod_calls[j].orig # eod_calls[i].orig)
    /\ [][LET n == Len(eod_calls)
          IN (Len(eod_calls') > n /\ eod_calls'[n + 1].outcome = "forbidden") =>
                /\ Len(eod_calls') = n + 1
                /\ fallback_attempted' = fallback_attempted + 1
                /\ fallback_ok' = fallback_ok
                /\ http_404' = http_404
                /\ http_other' = http_other
                /\ store' = store
                /\ written' = written
                /\ stats' = stats
                /\ fpc' = IF fb_i' < Min(fallback_budget, Len(missing_orig))
                          THEN "loop" ELSE "return"]_vars
C26_Witness ==
    /\ Len(eod_calls) = 2
    /\ eod_calls[1].outcome = "forbidden"
    /\ eod_calls[2].orig # eod_calls[1].orig
    /\ fpc = "return"

\* C27: the missing symbols are attempted in the order of the universe sequence the
\* caller passed, and when the budget is smaller than the number of missing symbols
\* the ones attempted are the first fallback_budget missing symbols of that sequence.
C27_CallerOrder ==
    LET at(x) == CHOOSE i \in 1..Len(passed) : passed[i] = x
        missing == SelectSeq(passed, LAMBDA x : x \in SetOf(missing_orig))
    IN /\ \A i, j \in 1..Len(eod_calls) :
             (i < j /\ ~eod_calls[i].alt /\ ~eod_calls[j].alt) =>
                 at(eod_calls[i].orig) < at(eod_calls[j].orig)
       /\ (fpc = "return" /\ ~timed_out /\ fallback_budget < Len(missing_orig)) =>
             {eod_calls[i].orig : i \in 1..Len(eod_calls)}
                 = {missing[i] : i \in 1..fallback_budget}

\* ------------------------------------------------------------------ claims: call_backfill_range

\* C29: the command classifies a date as partial (asks again while attempts remain,
\* counts it in total_partial otherwise) only if every attempt recorded in the entry of
\* the response (stats, retry1, retry2) was partial; a date whose last recorded attempt
\* is not partial is classified as OK.
C29_PartialOnlyIfAllPartial ==
    [][(client.pc = "wait" /\ client'.pc = "request" /\ response.kind = "ok"
            /\ Len(response.result) = 1 /\ client'.total_errors = client.total_errors) =>
          LET e == response.result[1]
              recorded == SelectSeq(<<e.stats, e.retry1, e.retry2>>,
                                    LAMBDA st : st # NoStats)
          IN /\ client'.is_partial =>
                   \A i \in 1..Len(recorded) : recorded[i] = "partial"
             /\ (recorded # <<>> /\ recorded[Len(recorded)] # "partial") =>
                   /\ ~client'.is_partial
                   /\ client'.total_ok = client.total_ok + 1]_vars

\* ------------------------------------------------------------------ claims: runner sleep

\* C28: the runner sleeps only between two bursts of the same invocation and never
\* after the final burst, whether the loop ended because the cursor reached len(order)
\* or because the time budget was exhausted.
C28_NoSleepAfterFinalBurst ==
    pc = "save" => ~slept

\* ------------------------------------------------------------------ claims: runner accounting

\* C30: in every invocation that returns ok=true, processed + remaining equals
\* len(order) minus the cursor the invocation started from, also when the time budget
\* is exceeded in the middle of a burst.
C30_ProcessedPlusRemaining ==
    (pc = "done" /\ result.kind = "returned" /\ result.ok) =>
        result.processed + result.remaining = Len(order) - idx0
====
